---- MODULE Spec2Model ----
(***************************************************************************)
(* A model of the three executables of the repository:                     *)
(*   app.py         the primary, stateless RAG chat service                *)
(*   single-app.py  the standalone variant with one global chat_history    *)
(*   ingest.py      the offline ingestion run                              *)
(* One behaviour is one run of one executable (variable program).  Text is *)
(* a sequence of one-character strings; the remote model, the embedding    *)
(* API and the vector search are functions of what is passed to them, and  *)
(* each remote call may fail.                                              *)
(***************************************************************************)
EXTENDS Integers, Sequences, FiniteSets, TLC

VARIABLES
    program,       \* which executable this run is: "app", "single-app", "ingest"
    vectordb,      \* app.py: the index loaded at start (FAISS.load_local)
    vector_store,  \* single-app.py: the index built at start
    chat_history,  \* single-app.py: the global conversation list
    pc,            \* per request: the handler's position
    req,           \* per request: the request as sent by the caller
    loc,           \* per request: the handler's local variables
    resp,          \* per request: the HTTP response sent
    stages,        \* per request: the chain stages attempted, in order
    failed,        \* per request: the stage whose remote call raised, or "none"
    ipc,           \* ingest.py: position of main()
    pdf,           \* ingest.py: the source PDF on disk
    docs,          \* ingest.py: local "pages"/"docs"
    index_dir,     \* ingest.py: what the index directory holds
    embed_calls,   \* ingest.py: embedding calls made so far
    exit_code      \* ingest.py: the exit status, -1 while running

vars == <<program, vectordb, vector_store, chat_history, pc, req, loc, resp,
          stages, failed, ipc, pdf, docs, index_dir, embed_calls, exit_code>>

reqVars == <<pc, req, loc, resp, stages, failed>>
ingestVars == <<ipc, pdf, docs, index_dir, embed_calls, exit_code>>

(***************************************************************************)
(* Bounds                                                                  *)
(***************************************************************************)
MaxReq == 2      \* requests of one run
MaxDocs == 6     \* chunks of the largest loaded index
MaxPages == 2    \* pages of the largest source PDF

Reqs == 1..MaxReq

(***************************************************************************)
(* Program constants                                                       *)
(***************************************************************************)
K == 5               \* search_kwargs={"k": 5}
DefaultK == 4        \* as_retriever() without search_kwargs
PreviewLen == 220    \* [:220]
ChunkSize == 800
ChunkOverlap == 150
DefaultSource == "Nestle HR Policy (2012)"
AppDebug == TRUE     \* app.run(..., debug=True)
SingleDebug == TRUE  \* app.run(debug=True)

(***************************************************************************)
(* Text                                                                    *)
(***************************************************************************)
IsSpace(c) == c = " "

RECURSIVE LStrip(_)
LStrip(s) == IF s # <<>> /\ IsSpace(Head(s)) THEN LStrip(Tail(s)) ELSE s

RECURSIVE RStrip(_)
RStrip(s) ==
    IF s # <<>> /\ IsSpace(s[Len(s)]) THEN RStrip(SubSeq(s, 1, Len(s) - 1)) ELSE s

\* str.strip()
Strip(s) == RStrip(LStrip(s))

\* s[:n]
Take(s, n) == SubSeq(s, 1, IF Len(s) < n THEN Len(s) ELSE n)

Reverse(s) == [i \in 1..Len(s) |-> s[Len(s) + 1 - i]]

(***************************************************************************)
(* JSON values of a request body.  A field is a string ("str"), absent     *)
(* ("missing"), or another JSON value: "falsy" (null, 0, false, [])        *)
(***************************************************************************)
Str(s) == [tag |-> "str", val |-> s]
Missing == [tag |-> "missing", val |-> <<>>]
Falsy == [tag |-> "falsy", val |-> <<>>]

\* dict.get(key, "")
GetOr(field) == IF field.tag = "missing" THEN Str(<<>>) ELSE field

(***************************************************************************)
(* The model's answers and LangChain messages                              *)
(***************************************************************************)
NoAnswer == [made |-> FALSE, q |-> <<>>, h |-> <<>>, c |-> <<>>, padded |-> FALSE]

HumanMessage(text) == [type |-> "human", text |-> text, ans |-> NoAnswer]
AIMessage(text) == [type |-> "ai", text |-> text, ans |-> NoAnswer]
\* AIMessage(content=response["answer"])
AIMessageOf(answer) == [type |-> "ai", text |-> <<>>, ans |-> answer]

\* The chat model (gpt-4o-mini, temperature 0) asked to answer `input` from the
\* context `ctx` with the conversation `hist`: a text fixed by what it is given,
\* here with surrounding whitespace.
AnswerLLM(input, hist, ctx) ==
    [made |-> TRUE, q |-> input, h |-> hist,
     c |-> [i \in 1..Len(ctx) |-> ctx[i].id], padded |-> TRUE]

\* str.strip() of an answer
StripAnswer(a) == [a EXCEPT !.padded = FALSE]

\* The chat model asked to rewrite `input` into a search query given `hist`.
RewriteLLM(input, hist) == [text |-> input, ctx |-> hist]
\* The input passed to the retriever as it is.
DirectQuery(input) == [text |-> input, ctx |-> <<>>]

(***************************************************************************)
(* The index: a sequence of chunks                                         *)
(***************************************************************************)
Absent == [has |-> FALSE, n |-> 0, label |-> ""]
Page(n) == [has |-> TRUE, n |-> n, label |-> ""]
Label(l) == [has |-> TRUE, n |-> 0, label |-> l]

\* The i-th chunk of an index: every third chunk has no page, every second
\* no source label, and the text of some is padded or blank.
Chunk(i) ==
    [id |-> i,
     page_content |-> CASE i % 3 = 0 -> <<" ", "a", " ">>
                        [] i % 3 = 1 -> <<"b">>
                        [] OTHER     -> <<>>,
     page |-> IF i % 3 = 0 THEN Absent ELSE Page(i),
     source |-> CASE i % 2 = 0 -> Absent
                  [] i % 4 = 1 -> Label(DefaultSource)
                  [] OTHER     -> Label("other.pdf")]

IndexOf(n) == [i \in 1..n |-> Chunk(i)]

\* Similarity search: the k nearest chunks of db for query q, nearest first.
\* The ranking is a function of the query and the index.
Ranked(q, db) == IF (Len(q.text) + Len(q.ctx)) % 2 = 0 THEN db ELSE Reverse(db)
Search(q, db, k) == Take(Ranked(q, db), k)

(***************************************************************************)
(* Requests and responses                                                  *)
(***************************************************************************)
Turn(role, content) == [role |-> role, content |-> content]
NoHistory == [tag |-> "missing", items |-> <<>>]
ListOf(items) == [tag |-> "list", items |-> items]

\* The values of the "message"/"query" field the callers send.
Messages == {Missing, Falsy, Str(<<" ">>), Str(<<" ", "a">>)}

\* The values of the "history" field the callers send.
RawHistories ==
    {NoHistory,
     ListOf(<<Turn("system", Str(<<"a">>))>>),
     ListOf(<<Turn("user", Str(<<"a">>)), Turn("assistant", Missing)>>)}

Callers == {"A", "B"}

\* The body of a POST /chat: not JSON at all ("invalid"), JSON that is no
\* object such as null or [] ("nonobject"), or an object with its fields.
Request(kind, message, history, caller) ==
    [kind |-> kind, message |-> message, history |-> history, caller |-> caller]

NoRequest == Request("none", Missing, NoHistory, "A")

NoQuery == DirectQuery(<<>>)

NoLocals ==
    [user_input |-> <<>>, chat_history |-> <<>>, query |-> NoQuery,
     context |-> <<>>, answer |-> NoAnswer]

Response(status, kind, text, answer, sources) ==
    [status |-> status, kind |-> kind, text |-> text, answer |-> answer,
     sources |-> sources]

NoResponse == Response(0, "none", "", NoAnswer, <<>>)

\* werkzeug's answer to an HTTPException raised in a view (BadRequest)
HttpError(status) == Response(status, "errorpage", "", NoAnswer, <<>>)

\* An exception that leaves the view function: HTTP 500, and with debug=True
\* the debugger's page, which shows the traceback and the exception's text.
Unhandled(debug) ==
    Response(500, IF debug THEN "traceback" ELSE "errorpage", "", NoAnswer, <<>>)

(***************************************************************************)
(* app.py: helpers                                                         *)
(***************************************************************************)
RECURSIVE lc_history_from_json(_)
lc_history_from_json(raw) ==
    IF raw = <<>> THEN <<>>
    ELSE LET m == Head(raw)
             rest == lc_history_from_json(Tail(raw))
         IN  CASE m.role = "user" -> <<HumanMessage(GetOr(m.content).val)>> \o rest
               [] m.role = "assistant" -> <<AIMessage(GetOr(m.content).val)>> \o rest
               [] OTHER -> rest

\* meta.get("page"): the page, None when the key is absent
MetaPage(d) == d.page
\* meta.get("source", "Nestle HR Policy (2012)")
MetaSource(d) == IF d.source.has THEN d.source.label ELSE DefaultSource

Descriptor(d) ==
    [page |-> MetaPage(d), source |-> MetaSource(d),
     preview |-> Strip(Take(d.page_content, PreviewLen))]

\* sources_from_context that leaves out the chunks without a page.
sources_paged_only(ctx_docs) ==
    LET paged == SelectSeq(ctx_docs, LAMBDA d : d.page.has)
    IN  [i \in 1..Len(paged) |-> Descriptor(paged[i])]

sources_from_context(ctx_docs) == [i \in 1..Len(ctx_docs) |-> Descriptor(ctx_docs[i])]

\* rag_chain.invoke({"input": input, "chat_history": hist}) over the index db,
\* when no remote call fails: the retrieved context and the answer.
rag_chain(input, hist, db) ==
    LET query == IF hist # <<>> THEN RewriteLLM(input, hist) ELSE DirectQuery(input)
        context == Search(query, db, K)
    IN  [context |-> context, answer |-> AnswerLLM(input, hist, context)]

(***************************************************************************)
(* app.py: chat(), one action per step of the handler and of rag_chain     *)
(***************************************************************************)
\* Requests are numbered in the order they arrive.
Arrives(r) == pc[r] = "idle" /\ \A o \in Reqs : o < r => pc[o] # "idle"

Finish(r, response) ==
    /\ pc' = [pc EXCEPT ![r] = "done"]
    /\ resp' = [resp EXCEPT ![r] = response]

\* Lines 101-104: the body is parsed and the inputs of the chain are built.
chat_receive(r) ==
    /\ program = "app"
    /\ Arrives(r)
    /\ \E kind \in {"invalid", "nonobject", "object"}, m \in Messages, h \in RawHistories :
         \* only an object has fields
         /\ kind # "object" => m = Missing /\ h = NoHistory
         /\ req' = [req EXCEPT ![r] = Request(kind, m, h, "A")]
         /\ CASE kind = "invalid" ->
                   \* get_json(force=True) raises BadRequest
                   /\ Finish(r, HttpError(400))
                   /\ UNCHANGED loc
              [] kind = "nonobject" \/ GetOr(m).tag # "str" ->
                   \* payload.get / .strip() raise AttributeError
                   /\ Finish(r, Unhandled(AppDebug))
                   /\ UNCHANGED loc
              [] OTHER ->
                   /\ loc' = [loc EXCEPT ![r] =
                                [@ EXCEPT !.user_input = Strip(GetOr(m).val),
                                          !.chat_history = lc_history_from_json(h.items)]]
                   /\ pc' = [pc EXCEPT ![r] = "retrieve"]
                   /\ UNCHANGED resp
    /\ UNCHANGED <<program, vectordb, vector_store, chat_history, stages, failed>>
    /\ UNCHANGED ingestVars

\* history_aware_retriever with a chat history: the model rewrites the query.
chat_rewrite(r) ==
    /\ program = "app"
    /\ pc[r] = "retrieve"
    /\ loc[r].chat_history # <<>>
    /\ stages' = [stages EXCEPT ![r] = Append(@, "rewrite")]
    /\ loc' = [loc EXCEPT ![r].query = RewriteLLM(loc[r].user_input, loc[r].chat_history)]
    /\ pc' = [pc EXCEPT ![r] = "search"]
    /\ UNCHANGED <<program, vectordb, vector_store, chat_history, req, resp, failed>>
    /\ UNCHANGED ingestVars

\* history_aware_retriever without a chat history: the input goes to the
\* retriever as it is, and the model is not called.
chat_direct(r) ==
    /\ program = "app"
    /\ pc[r] = "retrieve"
    /\ loc[r].chat_history = <<>>
    /\ loc' = [loc EXCEPT ![r].query = DirectQuery(loc[r].user_input)]
    /\ pc' = [pc EXCEPT ![r] = "search"]
    /\ UNCHANGED <<program, vectordb, vector_store, chat_history, req, resp, stages, failed>>
    /\ UNCHANGED ingestVars

\* chat_search that also adds the query to the index.
chat_search_indexing(r) ==
    /\ program = "app"
    /\ pc[r] = "search"
    /\ stages' = [stages EXCEPT ![r] = Append(@, "search")]
    /\ loc' = [loc EXCEPT ![r].context = Search(loc[r].query, vectordb, K)]
    /\ vectordb' = Append(vectordb, Chunk(Len(vectordb) + 1))
    /\ pc' = [pc EXCEPT ![r] = "generate"]
    /\ UNCHANGED <<program, vector_store, chat_history, req, resp, failed>>
    /\ UNCHANGED ingestVars

\* retriever: the query is embedded and the k nearest chunks are read.
chat_search(r) ==
    /\ program = "app"
    /\ pc[r] = "search"
    /\ stages' = [stages EXCEPT ![r] = Append(@, "search")]
    /\ loc' = [loc EXCEPT ![r].context = Search(loc[r].query, vectordb, K)]
    /\ pc' = [pc EXCEPT ![r] = "generate"]
    /\ UNCHANGED <<program, vectordb, vector_store, chat_history, req, resp, failed>>
    /\ UNCHANGED ingestVars

\* doc_chain: the chunks are stuffed into answer_prompt and the model answers.
chat_generate(r) ==
    /\ program = "app"
    /\ pc[r] = "generate"
    /\ stages' = [stages EXCEPT ![r] = Append(@, "generate")]
    /\ loc' = [loc EXCEPT ![r].answer =
                 AnswerLLM(loc[r].user_input, loc[r].chat_history, loc[r].context)]
    /\ pc' = [pc EXCEPT ![r] = "extract"]
    /\ UNCHANGED <<program, vectordb, vector_store, chat_history, req, resp, failed>>
    /\ UNCHANGED ingestVars

\* Lines 107-110: answer and sources are taken from the result and sent.
chat_respond(r) ==
    /\ program = "app"
    /\ pc[r] = "extract"
    /\ stages' = [stages EXCEPT ![r] = @ \o <<"extract", "respond">>]
    /\ Finish(r, Response(200, "json", "", StripAnswer(loc[r].answer),
                          sources_from_context(loc[r].context)))
    /\ UNCHANGED <<program, vectordb, vector_store, chat_history, req, loc, failed>>
    /\ UNCHANGED ingestVars

\* The stage of rag_chain whose remote call is next for r, "none" if none is.
NextCall(r) ==
    CASE pc[r] = "retrieve" /\ loc[r].chat_history # <<>> -> "rewrite"
      [] pc[r] = "search" -> "search"
      [] pc[r] = "generate" -> "generate"
      [] OTHER -> "none"

\* chat_fail with the failed call left to be tried again.
chat_fail_retry(r) ==
    /\ program = "app"
    /\ NextCall(r) # "none"
    /\ Len(stages[r]) < 6
    /\ stages' = [stages EXCEPT ![r] = Append(@, NextCall(r))]
    /\ UNCHANGED <<program, vectordb, vector_store, chat_history, pc, req, loc, resp, failed>>
    /\ UNCHANGED ingestVars

\* A remote call of rag_chain.invoke raises: nothing in chat() catches it.
chat_fail(r) ==
    /\ program = "app"
    /\ NextCall(r) # "none"
    /\ stages' = [stages EXCEPT ![r] = Append(@, NextCall(r))]
    /\ failed' = [failed EXCEPT ![r] = NextCall(r)]
    /\ Finish(r, Unhandled(AppDebug))
    /\ UNCHANGED <<program, vectordb, vector_store, chat_history, req, loc>>
    /\ UNCHANGED ingestVars

(***************************************************************************)
(* single-app.py: chat(), one action per step of the handler and of        *)
(* retrieval_chain.  The development server handles each request in a      *)
(* thread of its own, so the steps of different requests interleave.       *)
(***************************************************************************)
PleaseEnter == "Please enter a query."
ErrorOccurred == "An error occurred while processing your request."

\* not user_query
IsFalsy(field) == field.tag = "falsy" \/ (field.tag = "str" /\ field.val = <<>>)

\* Lines 254-258: the body is read and the query validated.
single_receive(r) ==
    /\ program = "single-app"
    /\ Arrives(r)
    /\ \E kind \in {"invalid", "nonobject", "object"}, m \in Messages, c \in Callers :
         /\ kind # "object" => m = Missing
         /\ req' = [req EXCEPT ![r] = Request(kind, m, NoHistory, c)]
         /\ CASE kind = "invalid" ->
                   \* request.json raises BadRequest
                   /\ Finish(r, HttpError(400))
                   /\ UNCHANGED loc
              [] kind = "nonobject" ->
                   \* data.get raises AttributeError, outside the try block
                   /\ Finish(r, Unhandled(SingleDebug))
                   /\ UNCHANGED loc
              [] IsFalsy(GetOr(m)) ->
                   /\ Finish(r, Response(400, "json", PleaseEnter, NoAnswer, <<>>))
                   /\ UNCHANGED loc
              [] OTHER ->
                   /\ loc' = [loc EXCEPT ![r].user_input = GetOr(m).val]
                   /\ pc' = [pc EXCEPT ![r] = "search"]
                   /\ UNCHANGED resp
    /\ UNCHANGED <<program, vectordb, vector_store, chat_history, stages, failed>>
    /\ UNCHANGED ingestVars

\* single_search for a handler that appends the user turn before the chain
\* answers.
single_search_appending(r) ==
    /\ program = "single-app"
    /\ pc[r] = "search"
    /\ stages' = [stages EXCEPT ![r] = Append(@, "search")]
    /\ loc' = [loc EXCEPT ![r] =
                 [@ EXCEPT !.query = DirectQuery(loc[r].user_input),
                           !.context = Search(DirectQuery(loc[r].user_input),
                                              vector_store, DefaultK),
                           !.chat_history = chat_history]]
    /\ chat_history' = Append(chat_history, HumanMessage(loc[r].user_input))
    /\ pc' = [pc EXCEPT ![r] = "generate"]
    /\ UNCHANGED <<program, vectordb, vector_store, req, resp, failed>>
    /\ UNCHANGED ingestVars

\* retrieval_chain: the retriever is called with the query; when it has
\* returned, the prompt is built from the global chat_history as it is then.
single_search(r) ==
    /\ program = "single-app"
    /\ pc[r] = "search"
    /\ stages' = [stages EXCEPT ![r] = Append(@, "search")]
    /\ loc' = [loc EXCEPT ![r] =
                 [@ EXCEPT !.query = DirectQuery(loc[r].user_input),
                           !.context = Search(DirectQuery(loc[r].user_input),
                                              vector_store, DefaultK),
                           !.chat_history = chat_history]]
    /\ pc' = [pc EXCEPT ![r] = "generate"]
    /\ UNCHANGED <<program, vectordb, vector_store, chat_history, req, resp, failed>>
    /\ UNCHANGED ingestVars

\* document_chain: the model answers from the prompt.
single_generate(r) ==
    /\ program = "single-app"
    /\ pc[r] = "generate"
    /\ stages' = [stages EXCEPT ![r] = Append(@, "generate")]
    /\ loc' = [loc EXCEPT ![r].answer =
                 AnswerLLM(loc[r].user_input, loc[r].chat_history, loc[r].context)]
    /\ pc' = [pc EXCEPT ![r] = "append_user"]
    /\ UNCHANGED <<program, vectordb, vector_store, chat_history, req, resp, failed>>
    /\ UNCHANGED ingestVars

\* single_append_user under a lock held from the first append to the second.
single_append_user_locked(r) ==
    /\ program = "single-app"
    /\ pc[r] = "append_user"
    /\ \A o \in Reqs : pc[o] # "append_ai"
    /\ chat_history' = Append(chat_history, HumanMessage(loc[r].user_input))
    /\ pc' = [pc EXCEPT ![r] = "append_ai"]
    /\ UNCHANGED <<program, vectordb, vector_store, req, loc, resp, stages, failed>>
    /\ UNCHANGED ingestVars

\* Line 267
single_append_user(r) ==
    /\ program = "single-app"
    /\ pc[r] = "append_user"
    /\ chat_history' = Append(chat_history, HumanMessage(loc[r].user_input))
    /\ pc' = [pc EXCEPT ![r] = "append_ai"]
    /\ UNCHANGED <<program, vectordb, vector_store, req, loc, resp, stages, failed>>
    /\ UNCHANGED ingestVars

\* Lines 268-270
single_append_ai(r) ==
    /\ program = "single-app"
    /\ pc[r] = "append_ai"
    /\ chat_history' = Append(chat_history, AIMessageOf(loc[r].answer))
    /\ Finish(r, Response(200, "json", "", loc[r].answer, <<>>))
    /\ UNCHANGED <<program, vectordb, vector_store, req, loc, stages, failed>>
    /\ UNCHANGED ingestVars

\* An except clause that answers with success.
single_except_degraded == Response(200, "json", ErrorOccurred, NoAnswer, <<>>)

\* Lines 271-273: what the except clause answers.
single_except == Response(500, "json", ErrorOccurred, NoAnswer, <<>>)

\* single_fail for a handler that appends the user turn before the chain runs.
single_fail_after_append(r) ==
    /\ program = "single-app"
    /\ pc[r] \in {"search", "generate"}
    /\ stages' = [stages EXCEPT ![r] = Append(@, pc[r])]
    /\ failed' = [failed EXCEPT ![r] = pc[r]]
    /\ chat_history' = Append(chat_history, HumanMessage(loc[r].user_input))
    /\ Finish(r, single_except)
    /\ UNCHANGED <<program, vectordb, vector_store, req, loc>>
    /\ UNCHANGED ingestVars

\* A remote call of retrieval_chain.invoke raises inside the try block.
single_fail(r) ==
    /\ program = "single-app"
    /\ pc[r] \in {"search", "generate"}
    /\ stages' = [stages EXCEPT ![r] = Append(@, pc[r])]
    /\ failed' = [failed EXCEPT ![r] = pc[r]]
    /\ Finish(r, single_except)
    /\ UNCHANGED <<program, vectordb, vector_store, chat_history, req, loc>>
    /\ UNCHANGED ingestVars

\* No handler is running.
Quiet == \A r \in Reqs : pc[r] \in {"idle", "done"}

\* A request arrives when the callers send one request at a time.
single_receive_alone(r) == Quiet /\ single_receive(r)

(***************************************************************************)
(* ingest.py: main()                                                       *)
(***************************************************************************)
NoPdf == [exists |-> FALSE, pages |-> <<>>]
\* The characters of the pages of the PDFs tried.
PageSizes == {500, 2000}
Pdfs == {NoPdf} \cup
        UNION {{[exists |-> TRUE, pages |-> p] : p \in [1..n -> PageSizes]} : n \in 1..MaxPages}

\* The chunks a page of `size` characters is split into: windows of
\* chunk_size characters, each overlapping the one before by chunk_overlap.
ChunksOf(size) ==
    IF size <= ChunkSize THEN 1
    ELSE 1 + ((size - ChunkSize) + (ChunkSize - ChunkOverlap) - 1) \div (ChunkSize - ChunkOverlap)

RECURSIVE split_documents(_, _)
split_documents(pages, first) ==
    IF pages = <<>> THEN <<>>
    ELSE [i \in 1..ChunksOf(Head(pages)) |->
            [id |-> i, page_content |-> <<"b">>, page |-> Page(first), source |-> Absent]]
         \o split_documents(Tail(pages), first + 1)

\* Lines 29-30
TagSource(ds) == [i \in 1..Len(ds) |-> [ds[i] EXCEPT !.source = Label(DefaultSource)]]

ingestFrame == UNCHANGED <<program, vectordb, vector_store, chat_history>> /\ UNCHANGED reqVars

Abort ==
    /\ ipc' = "exit"
    /\ exit_code' = 1

\* main_check without the assertion.
main_check_skipped ==
    /\ program = "ingest"
    /\ ipc = "check"
    /\ ipc' = "load"
    /\ UNCHANGED <<pdf, docs, index_dir, embed_calls, exit_code>>
    /\ ingestFrame

\* Lines 13-14: the assertion on the PDF's path.
main_check ==
    /\ program = "ingest"
    /\ ipc = "check"
    /\ IF pdf.exists
       THEN ipc' = "load" /\ UNCHANGED exit_code
       ELSE Abort
    /\ UNCHANGED <<pdf, docs, index_dir, embed_calls>>
    /\ ingestFrame

\* Lines 17-18
main_load ==
    /\ program = "ingest"
    /\ ipc = "load"
    /\ docs' = [i \in 1..Len(pdf.pages) |->
                 [id |-> i, page_content |-> <<"b">>, page |-> Page(i - 1), source |-> Absent]]
    /\ ipc' = "split"
    /\ UNCHANGED <<pdf, index_dir, embed_calls, exit_code>>
    /\ ingestFrame

\* Lines 21-30
main_split ==
    /\ program = "ingest"
    /\ ipc = "split"
    /\ docs' = TagSource(split_documents(pdf.pages, 0))
    /\ ipc' = "embed"
    /\ UNCHANGED <<pdf, index_dir, embed_calls, exit_code>>
    /\ ingestFrame

\* Lines 34-35: the chunks are embedded by the remote API, which may fail.
main_embed ==
    /\ program = "ingest"
    /\ ipc = "embed"
    /\ embed_calls' = embed_calls + 1
    /\ \/ ipc' = "save" /\ UNCHANGED exit_code
       \/ Abort
    /\ UNCHANGED <<pdf, docs, index_dir>>
    /\ ingestFrame

\* Lines 39-44
main_save ==
    /\ program = "ingest"
    /\ ipc = "save"
    /\ index_dir' = docs
    /\ ipc' = "exit"
    /\ exit_code' = 0
    /\ UNCHANGED <<pdf, docs, embed_calls>>
    /\ ingestFrame

(***************************************************************************)
(* Specifications                                                          *)
(***************************************************************************)
InitRequests ==
    /\ pc = [r \in Reqs |-> "idle"]
    /\ req = [r \in Reqs |-> NoRequest]
    /\ loc = [r \in Reqs |-> NoLocals]
    /\ resp = [r \in Reqs |-> NoResponse]
    /\ stages = [r \in Reqs |-> <<>>]
    /\ failed = [r \in Reqs |-> "none"]

InitApp ==
    /\ program = "app"
    /\ vectordb \in {IndexOf(2), IndexOf(MaxDocs)}
    /\ vector_store = <<>>
    /\ chat_history = <<>>
    /\ InitRequests
    /\ ipc = "off" /\ pdf = NoPdf /\ docs = <<>> /\ index_dir = <<>>
    /\ embed_calls = 0 /\ exit_code = -1

InitSingle ==
    /\ program = "single-app"
    /\ vectordb = <<>>
    /\ vector_store = IndexOf(MaxDocs)
    /\ chat_history = <<>>
    /\ InitRequests
    /\ ipc = "off" /\ pdf = NoPdf /\ docs = <<>> /\ index_dir = <<>>
    /\ embed_calls = 0 /\ exit_code = -1

InitIngest ==
    /\ program = "ingest"
    /\ vectordb = <<>>
    /\ vector_store = <<>>
    /\ chat_history = <<>>
    /\ InitRequests
    /\ ipc = "check"
    /\ pdf \in Pdfs
    /\ docs = <<>>
    /\ index_dir \in {<<>>, IndexOf(1)}
    /\ embed_calls = 0
    /\ exit_code = -1

Init == InitApp \/ InitSingle \/ InitIngest

NextApp ==
    \E r \in Reqs :
        \/ chat_receive(r)
        \/ chat_rewrite(r)
        \/ chat_direct(r)
        \/ chat_search(r)
        \/ chat_generate(r)
        \/ chat_respond(r)
        \/ chat_fail(r)

NextSingleSteps ==
    \E r \in Reqs :
        \/ single_search(r)
        \/ single_generate(r)
        \/ single_append_user(r)
        \/ single_append_ai(r)
        \/ single_fail(r)

NextIngest == main_check \/ main_load \/ main_split \/ main_embed \/ main_save

Next ==
    \/ NextApp
    \/ (\E r \in Reqs : single_receive(r))
    \/ NextSingleSteps
    \/ NextIngest

Spec == Init /\ [][Next]_vars

\* single-app.py with the requests sent one at a time.
NextAlone == (\E r \in Reqs : single_receive_alone(r)) \/ NextSingleSteps

SpecAlone == InitSingle /\ [][NextAlone]_vars

(***************************************************************************)
(* Properties                                                              *)
(***************************************************************************)
IsPrefix(s, t) == Len(s) <= Len(t) /\ SubSeq(t, 1, Len(s)) = s

Done(r) == pc[r] = "done"

\* Some index of the sequence s holds x.
Holds(s, x) == \E i \in 1..Len(s) : s[i] = x

\* C1: in single-app.py nothing keeps the handlers of two requests apart: while
\* one request is between its two appends to chat_history, another request can
\* append its own user turn, and another can read chat_history for its prompt.
C1_NoLockOnHistory ==
    \A r1, r2 \in Reqs :
        (program = "single-app" /\ r1 # r2 /\ pc[r1] = "append_ai") =>
            /\ pc[r2] = "append_user" => ENABLED single_append_user(r2)
            /\ pc[r2] = "search" => ENABLED single_search(r2)

\* Two answered requests of different callers: the user turn and the answer
\* of one are separated by the user turn of the other, and the other was
\* answered from a history holding the first one's user turn.
C1_Interleaved ==
    \E r1, r2 \in Reqs :
        /\ program = "single-app"
        /\ r1 # r2 /\ Done(r1) /\ Done(r2)
        /\ resp[r1].status = 200 /\ resp[r2].status = 200
        /\ req[r1].caller # req[r2].caller
        /\ loc[r1].user_input # loc[r2].user_input
        /\ chat_history = <<HumanMessage(loc[r1].user_input),
                            HumanMessage(loc[r2].user_input),
                            AIMessageOf(loc[r1].answer),
                            AIMessageOf(loc[r2].answer)>>
        /\ Holds(loc[r2].chat_history, HumanMessage(loc[r1].user_input))
        /\ loc[r1].chat_history = <<>>

\* What app.py answers to an object body with a string message when no
\* remote call fails, from the request and the index alone.
PureResponse(request, db) ==
    LET input == Strip(GetOr(request.message).val)
        hist == lc_history_from_json(request.history.items)
        result == rag_chain(input, hist, db)
    IN  Response(200, "json", "", StripAnswer(result.answer),
                 sources_from_context(result.context))

AnsweredPurely ==
    \A r \in Reqs :
        (program = "app" /\ Done(r)) =>
            \/ resp[r].status # 200
            \/ resp[r] = PureResponse(req[r], vectordb)

\* C2: in app.py no step of a request writes the loaded index, and every
\* successful response is the one computed from that request's own message
\* and history and the index, whatever other requests did before or meanwhile.
C2_Stateless == []AnsweredPurely /\ [][vectordb' = vectordb]_vars

\* Two requests with different bodies answered with success, the second one
\* sent with a history, the first one without.
C2_TwoAnswered ==
    /\ program = "app"
    /\ Done(1) /\ Done(2)
    /\ resp[1].status = 200 /\ resp[2].status = 200
    /\ loc[1].chat_history = <<>> /\ loc[2].chat_history # <<>>
    /\ resp[1] # resp[2]

\* The body of a request names no query/message, or an empty one.
FieldMissingOrEmpty(request) ==
    \/ request.kind \in {"invalid", "nonobject"}
    \/ request.kind = "object" /\ IsFalsy(GetOr(request.message))

\* C3: in single-app.py every request whose query is missing or empty is
\* answered with HTTP 400 and a text, and the retrieval chain is not invoked.
C3_EmptyQueryIs400 ==
    \A r \in Reqs :
        (program = "single-app" /\ Done(r) /\ FieldMissingOrEmpty(req[r])) =>
            /\ resp[r].status = 400
            /\ resp[r].kind \in {"json", "errorpage"}
            /\ stages[r] = <<>>

\* C4: in both front ends a request one of whose remote calls (query rewrite,
\* retrieval, answer generation) failed ends with an HTTP 500-class response
\* that carries no answer, and a success response carries a generated answer.
C4_FailureIs500 ==
    \A r \in Reqs :
        /\ failed[r] # "none" =>
              /\ Done(r)
              /\ resp[r].status \in 500..599
              /\ ~resp[r].answer.made
        /\ (Done(r) /\ resp[r].status = 200) =>
              /\ failed[r] = "none"
              /\ resp[r].answer.made

\* A request of app.py whose query-rewrite call failed.
C4_RewriteFailed ==
    \E r \in Reqs :
        /\ program = "app"
        /\ Done(r)
        /\ failed[r] = "rewrite"
        /\ resp[r].status = 500

\* C5: in both front ends the response to a request that failed internally is
\* a generic error message, never a page with the traceback and the exception.
C5_OnlyGenericError ==
    \A r \in Reqs :
        (Done(r) /\ failed[r] # "none") => resp[r].kind # "traceback"

\* The body is an object whose message is missing, empty or only whitespace.
MessageBlank(request) ==
    /\ request.kind = "object"
    /\ GetOr(request.message).tag = "str"
    /\ Strip(GetOr(request.message).val) = <<>>

\* C6: in app.py every request whose message is missing, empty or only
\* whitespace is answered with a client error, and rag_chain is not invoked.
C6_BlankMessageRejected ==
    \A r \in Reqs :
        (program = "app" /\ MessageBlank(req[r])) =>
            /\ stages[r] = <<>>
            /\ Done(r) => resp[r].status \in 400..499

\* C7: in app.py the sources of a successful response are one descriptor per
\* chunk retrieved for the request, in the order retrieved and at most K: the
\* page is the chunk's (null when it has none), the source is the chunk's
\* label or the default label when it has none.
C7_SourcesMatchContext ==
    \A r \in Reqs :
        (program = "app" /\ Done(r) /\ resp[r].status = 200) =>
            LET ctx == Search(loc[r].query, vectordb, K)
                srcs == resp[r].sources
            IN  /\ Len(srcs) = Len(ctx)
                /\ Len(srcs) <= K
                /\ \A i \in 1..Len(srcs) :
                      /\ DOMAIN srcs[i] = {"page", "source", "preview"}
                      /\ srcs[i].page = ctx[i].page
                      /\ srcs[i].source =
                           (IF ctx[i].source.has THEN ctx[i].source.label ELSE DefaultSource)

\* A success response over an index of more than K chunks: K descriptors,
\* one for a chunk without a page and one for a chunk without a label.
C7_FullSources ==
    \E r \in Reqs :
        /\ program = "app" /\ Done(r) /\ resp[r].status = 200
        /\ Len(vectordb) > K
        /\ Len(resp[r].sources) = K
        /\ \E i, j \in 1..K :
              /\ ~loc[r].context[i].page.has /\ ~resp[r].sources[i].page.has
              /\ ~loc[r].context[j].source.has /\ resp[r].sources[j].source = DefaultSource

\* C8: when the source PDF is missing, ingest.py makes no embedding call,
\* never writes the index directory, and exits with a non-zero status.
C8_MissingPdfAborts ==
    /\ []((program = "ingest" /\ ~pdf.exists) =>
            /\ embed_calls = 0
            /\ ipc = "exit" => exit_code > 0)
    /\ [][(program = "ingest" /\ ~pdf.exists) => index_dir' = index_dir]_vars

\* The run has ended on a missing PDF beside an index of an earlier run.
C8_AbortedBesideIndex ==
    /\ program = "ingest"
    /\ ~pdf.exists
    /\ ipc = "exit"
    /\ exit_code = 1
    /\ index_dir = IndexOf(1)

StageOrder == <<"rewrite", "search", "generate", "extract", "respond">>

\* C9 as stated: every request of app.py runs the stages in the fixed order
\* rewrite, search, generate, extract, respond, each once, each after the
\* one before it.
C9_RewriteAlwaysFirst ==
    \A r \in Reqs : program = "app" => IsPrefix(stages[r], StageOrder)

\* C9, amended: the stages of a request of app.py are attempted in the fixed
\* order, each at most once and each after the one before it, where the
\* rewrite is left out when the converted history is empty; a failed stage is
\* the last one of its request; a success response follows all the stages.
C9_StagesInOrder ==
    \A r \in Reqs :
        program = "app" =>
            /\ IsPrefix(stages[r],
                        IF loc[r].chat_history # <<>> THEN StageOrder ELSE Tail(StageOrder))
            /\ failed[r] # "none" =>
                  /\ Done(r)
                  /\ stages[r] # <<>>
                  /\ stages[r][Len(stages[r])] = failed[r]
            /\ (Done(r) /\ resp[r].status = 200) =>
                  stages[r] = (IF loc[r].chat_history # <<>> THEN StageOrder
                               ELSE Tail(StageOrder))

\* One request failed in its vector search after the rewrite, another one
\* was answered without a rewrite.
C9_FailedAndDirect ==
    \E r1, r2 \in Reqs :
        /\ program = "app"
        /\ Done(r1) /\ stages[r1] = <<"rewrite", "search">> /\ failed[r1] = "search"
        /\ Done(r2) /\ resp[r2].status = 200 /\ stages[r2] = Tail(StageOrder)

\* The turns the requests 1..n have put into chat_history, in request order.
RECURSIVE TurnsUpTo(_)
TurnsUpTo(n) ==
    IF n = 0 THEN <<>>
    ELSE TurnsUpTo(n - 1) \o
         (CASE Done(n) /\ resp[n].status = 200 ->
                  <<HumanMessage(GetOr(req[n].message).val), AIMessageOf(resp[n].answer)>>
            [] pc[n] = "append_ai" -> <<HumanMessage(GetOr(req[n].message).val)>>
            [] OTHER -> <<>>)

Answered == {r \in Reqs : Done(r) /\ resp[r].status = 200}

Alternates ==
    \A i \in 1..Len(chat_history) :
        chat_history[i].type = (IF i % 2 = 1 THEN "human" ELSE "ai")

EndsInError(r) ==
    /\ pc[r] # "done"
    /\ pc'[r] = "done"
    /\ resp'[r].status \in 400..599

BetweenAppends == {r \in Reqs : pc[r] = "append_ai"}

\* C11: in single-app.py the step that ends a request with HTTP 400 or 500
\* leaves chat_history as it is, and that request has appended nothing
\* before it: the turns of chat_history are two for every answered request
\* and one for every request between its two appends, none for the others.
C11_ErrorLeavesHistory ==
    /\ [](program = "single-app" =>
            Len(chat_history) = 2 * Cardinality(Answered) + Cardinality(BetweenAppends))
    /\ [][\A r \in Reqs :
            (program = "single-app" /\ EndsInError(r)) =>
                /\ chat_history' = chat_history
                /\ pc[r] \notin {"append_user", "append_ai"}]_vars

\* One request has failed in its model call while another one is between
\* its two appends, with only that first user turn in chat_history.
C11_ErrorsBesideAppend ==
    \E r1, r2 \in Reqs :
        /\ program = "single-app"
        /\ pc[r1] = "append_ai"
        /\ Done(r2) /\ resp[r2].status = 500 /\ failed[r2] = "generate"
        /\ chat_history = <<HumanMessage(loc[r1].user_input)>>

====
